---- MODULE Spec2Model ----
\* Model of the crawl orchestration engine of LLM-Docs
\* (llm_docify/app/crawler.py, driving llm_docify/app/parser.py).
\*
\* Strings the code inspects are modelled by their parts.  A URL string
\* "scheme://netloc/path?query#fragment" is the record of the five parts that
\* urllib.parse.urlparse returns for it; netloc and path are sequences of
\* text tokens ("www." and "/" being tokens of their own), so that
\* str.replace('www.', ''), str.endswith and the trailing-slash test act on
\* them as they do on the text.  A document (the returned Markdown, the file
\* llms.md) is the sequence of the pieces written to it.
EXTENDS Integers, Sequences, FiniteSets, TLC

----------------------------------------------------------------------------
\* Bounds of the model

MaxPagesBound == 2      \* max_pages ranges over 1..MaxPagesBound
MaxLinks == 2           \* <a href> links read from one page
BfsPages == 4           \* max_pages of the crawls of SpecBfs

----------------------------------------------------------------------------
\* Sequences helpers

Range(s) == {s[i] : i \in 1..Len(s)}

Last(s) == s[Len(s)]

IsSuffix(suf, s) ==
    /\ Len(suf) <= Len(s)
    /\ SubSeq(s, Len(s) - Len(suf) + 1, Len(s)) = suf

IsPrefix(pre, s) ==
    /\ Len(pre) <= Len(s)
    /\ SubSeq(s, 1, Len(pre)) = pre

SeqsUpTo(S, n) == UNION {[1..k -> S] : k \in 0..n}

----------------------------------------------------------------------------
\* URLs

NoUrl == [scheme |-> "", netloc |-> <<>>, path |-> <<>>, query |-> "", fragment |-> ""]

MkUrl(s, n, p, q, f) ==
    [scheme |-> s, netloc |-> n, path |-> p, query |-> q, fragment |-> f]

\* crawler.py SKIP_EXTENSIONS
SKIP_EXTENSIONS ==
    { ".pdf", ".doc", ".docx", ".ppt", ".pptx", ".xls", ".xlsx",
      ".zip", ".rar", ".tar", ".gz", ".7z",
      ".jpg", ".jpeg", ".png", ".gif", ".bmp", ".svg", ".webp",
      ".mp3", ".mp4", ".avi", ".mov", ".wmv", ".flv",
      ".exe", ".bin", ".iso", ".dmg", ".apk", ".ipa" }

\* str.lower() on the path tokens of the model
Lower(tok) ==
    CASE tok = "GUIDE.PDF" -> "guide.pdf"
      [] tok = "About"     -> "about"
      [] OTHER             -> tok

\* the text after the last "." of a path token, with the dot ("" if none)
Suffix(tok) ==
    CASE tok = "guide.pdf" -> ".pdf"
      [] tok = "GUIDE.PDF" -> ".PDF"
      [] tok = "logo.png"  -> ".png"
      [] tok = "page.html" -> ".html"
      [] tok = "file=guide.pdf" -> ".pdf"
      [] OTHER             -> ""

\* the suffix is compared without lowering the path
HasSkipExtensionCaseSensitive(path) ==
    /\ path # <<>>
    /\ Suffix(Last(path)) \in SKIP_EXTENSIONS

\* path.lower() then any(path.endswith(ext) for ext in SKIP_EXTENSIONS)
HasSkipExtension(path) ==
    /\ path # <<>>
    /\ Suffix(Lower(Last(path))) \in SKIP_EXTENSIONS

\* netloc.replace('www.', '')
StripWww(netloc) == SelectSeq(netloc, LAMBDA t : t # "www.")

\* url.startswith('http://') or url.startswith('https://')
StartsWithHttp(url) == url.scheme \in {"http", "https"} /\ url.netloc # <<>>

\* url.startswith('/')
StartsWithSlash(url) ==
    /\ url.scheme = ""
    /\ \/ url.netloc # <<>>
       \/ (url.path # <<>> /\ url.path[1] = "/")

\* the directory part of a base path: everything up to its last "/"
DirOf(path) ==
    IF path = <<>> THEN <<"/">>
    ELSE IF Last(path) = "/" THEN path
    ELSE SubSeq(path, 1, Len(path) - 1)

\* urllib.parse.urljoin(base, ref), for references without dot segments
UrlJoin(base, ref) ==
    IF ref = NoUrl THEN base
    ELSE IF ref.scheme # "" THEN ref
    ELSE IF ref.netloc # <<>> THEN [ref EXCEPT !.scheme = base.scheme]
    ELSE IF ref.path = <<>>
         THEN [base EXCEPT !.query = IF ref.query # "" THEN ref.query ELSE base.query,
                           !.fragment = ref.fragment]
    ELSE IF ref.path[1] = "/"
         THEN [base EXCEPT !.path = ref.path, !.query = ref.query,
                           !.fragment = ref.fragment]
    ELSE [base EXCEPT !.path = DirOf(base.path) \o ref.path, !.query = ref.query,
                      !.fragment = ref.fragment]

\* f"{self.scheme}://{self.netloc}"
BaseUrl(start) == MkUrl(start.scheme, start.netloc, <<>>, "", "")

\* the relative-link branch of _normalize_url (lines 93-101)
Resolve(url, parent_url, start) ==
    IF StartsWithHttp(url) THEN url
    ELSE IF StartsWithSlash(url) THEN UrlJoin(BaseUrl(start), url)
    ELSE UrlJoin(parent_url, url)

\* the domain scope test of _normalize_url (lines 111-119)
InScope(netloc, start, allow) ==
    LET stripped == StripWww(netloc)
        domain   == StripWww(start.netloc)
    IN  IF allow THEN IsSuffix(domain, stripped)
        ELSE ~(stripped # domain /\ stripped # <<"www.">> \o domain)

\* the trailing slash is added whether or not the URL already ends with one
CleanUrlAlwaysSlash(parsed) ==
    MkUrl(parsed.scheme, parsed.netloc, parsed.path \o <<"/">>, "", "")

\* f"{parsed.scheme}://{parsed.netloc}{parsed.path}" plus the trailing slash
CleanUrl(parsed) ==
    MkUrl(parsed.scheme, parsed.netloc,
          IF parsed.path # <<>> /\ Last(parsed.path) = "/"
          THEN parsed.path ELSE parsed.path \o <<"/">>,
          "", "")

\* WebsiteCrawler._normalize_url; NoUrl stands for None
NormalizeUrl(url, parent_url, start, allow) ==
    LET parsed == Resolve(url, parent_url, start)
    IN  IF parsed.scheme \notin {"http", "https"} THEN NoUrl
        ELSE IF ~InScope(parsed.netloc, start, allow) THEN NoUrl
        ELSE IF HasSkipExtension(parsed.path) THEN NoUrl
        ELSE CleanUrl(parsed)

----------------------------------------------------------------------------
\* The outside world: the caller's arguments, the site, its robots.txt

Host == <<"example.com">>

Seeds ==
    { MkUrl("https", Host, <<>>, "", ""),                         \* https://example.com
      MkUrl("https", Host, <<"/">>, "", ""),                      \* https://example.com/
      MkUrl("", <<>>, <<"example.com">>, "", "") }                \* example.com

Hrefs ==
    { MkUrl("", <<>>, <<"/", "about">>, "", ""),                  \* /about
      MkUrl("", <<>>, <<"/", "about", "/">>, "", ""),             \* /about/
      MkUrl("", <<>>, <<"/">>, "", ""),                           \* /
      MkUrl("", <<>>, <<"docs", "/">>, "x=1", "top"),             \* docs/?x=1#top
      MkUrl("", <<>>, <<"/", "guide.pdf">>, "", ""),              \* /guide.pdf
      MkUrl("https", <<"other.org">>, <<"/">>, "", "") }          \* https://other.org/

\* parser.py, the selectors of strategies 3 to 5, in the order they are tried
CONTENT_SELECTORS ==
    << "#content", ".content", "[role='main']", ".main-content", "#main-content" >>

AllSelectors == {"main", "article"} \cup Range(CONTENT_SELECTORS)

\* the length floors of parser.py
TrafilaturaMinLen == 500
ReadabilityMinLen == 500
SelectorMinText == 200

\* What a GET of a page returns: an error status, or HTML of which the model
\* keeps what the extraction looks at:
\*   traf  length of the fragment trafilatura.extract returns (0: None)
\*   read  length of the summary readability returns (0: none, or it raised)
\*   sel   per selector, the length of the visible text of the first matching
\*         element of the cleaned document (-1: no such element)
\*   body  the length of the text of <body> in the cleaned document (-1: no
\*         <body> element)
\*   text  which content the page carries
Html(status, traf, read, sel, body, text) ==
    [status |-> status, traf |-> traf, read |-> read, sel |-> sel,
     body |-> body, text |-> text]

NoElement == [s \in AllSelectors |-> -1]

\* the pages served during a crawl
Htmls ==
    { Html("error", 0, 0, NoElement, -1, 0),
      Html("ok", TrafilaturaMinLen, 0, NoElement, 50, 1),
      Html("ok", 0, 0, NoElement, 50, 2),
      Html("ok", 0, 0, NoElement, -1, 0) }

\* the pages given to a single parse_url_to_markdown call: every combination
\* of strategies that succeed, and each length floor missed by one
SelectorTexts ==
    [AllSelectors -> {-1, SelectorMinText}]
       \cup {[NoElement EXCEPT ![s] = SelectorMinText - 1] : s \in AllSelectors}

PageHtmls ==
    { Html("error", 0, 0, NoElement, -1, 0) }
       \cup { Html("ok", traf, read, sel, body, 1) :
                traf \in {0, TrafilaturaMinLen - 1, TrafilaturaMinLen},
                read \in {0, ReadabilityMinLen - 1, ReadabilityMinLen},
                sel \in SelectorTexts,
                body \in {-1, 0, 50} }

\* self.robots_parser = None
RobotsNone ==
    [loaded |-> FALSE, disallow_all |-> FALSE, allow_all |-> FALSE,
     last_checked |-> FALSE, disallow |-> {}]

\* What the GET of /robots.txt does: the request raises (no connection,
\* timeout, undecodable body), the server answers with an HTTP error status,
\* or it serves a robots.txt, of which the model keeps the Disallow prefixes
\* for user-agent "*".  "none" is the request that was never made.
NoRobotsRequest == [kind |-> "none", rules |-> {}]

RobotsResponses ==
    { [kind |-> "raised",   rules |-> {}],
      [kind |-> "http_403", rules |-> {}],
      [kind |-> "http_404", rules |-> {}],
      [kind |-> "http_500", rules |-> {}],
      [kind |-> "ok",       rules |-> {<<"/", "about">>}] }

----------------------------------------------------------------------------
\* Robots gate

\* urllib.robotparser.RobotFileParser(robots_url) followed by read(): an
\* HTTPError is swallowed by read() (401/403 set disallow_all, other 4xx set
\* allow_all, 5xx leaves the parser unread), a served file is parsed
RobotsRead(resp) ==
    LET fresh == [loaded |-> TRUE, disallow_all |-> FALSE, allow_all |-> FALSE,
                  last_checked |-> FALSE, disallow |-> {}]
    IN  CASE resp.kind = "http_403" -> [fresh EXCEPT !.disallow_all = TRUE]
          [] resp.kind = "http_404" -> [fresh EXCEPT !.allow_all = TRUE]
          [] resp.kind = "http_500" -> fresh
          [] OTHER -> [fresh EXCEPT !.last_checked = TRUE, !.disallow = resp.rules]

\* __init__ lines 64-67 with _init_robots_parser: None unless respect_robots,
\* and None when read() raised
InitRobotsParser(respect, resp) ==
    IF ~respect THEN RobotsNone
    ELSE IF resp.kind = "raised" THEN RobotsNone
    ELSE RobotsRead(resp)

\* urllib.robotparser.RobotFileParser.can_fetch("*", url): the path ("/" when
\* empty) is matched by prefix against the Disallow lines
RobotsAllows(parser, u) ==
    LET path == IF u.path = <<>> THEN <<"/">> ELSE u.path
    IN  IF parser.disallow_all THEN FALSE
        ELSE IF parser.allow_all THEN TRUE
        ELSE IF ~parser.last_checked THEN FALSE
        ELSE \A rule \in parser.disallow : ~IsPrefix(rule, path)

\* the robots answer ignored
CanFetchAlways(parser, u) == TRUE

\* WebsiteCrawler._can_fetch
CanFetch(parser, u) ==
    IF ~parser.loaded THEN TRUE ELSE RobotsAllows(parser, u)

----------------------------------------------------------------------------
\* The single-page pipeline (parser.py)

NoMarkdown == [t |-> "markdown", url |-> NoUrl, strategy |-> "", text |-> 0]

\* extract_with_trafilatura returns a fragment (not None)
ExtractWithTrafilatura(html) ==
    ~(html.traf = 0 \/ html.traf < TrafilaturaMinLen)

\* extract_with_readability returns a fragment (not None)
ExtractWithReadability(html) ==
    ~(html.read = 0 \/ html.read < ReadabilityMinLen)

\* extract_with_selector(soup, selector) returns a fragment (not None)
ExtractWithSelector(html, selector) ==
    IF html.sel[selector] = -1 THEN FALSE
    ELSE ~(html.sel[selector] < SelectorMinText)

\* <body> held to the floor of the selector strategies
BodyFallbackWithFloor(html) == html.body # -1 /\ ~(html.body < SelectorMinText)

\* <body> counted as found only when it has text: a length floor
BodyFallbackNonEmpty(html) == html.body > 0

\* soup.find('body') finds an element; str(body) is then never empty
BodyFallback(html) == html.body # -1

\* strategy 5: the first content selector, in order, that returns a fragment
\* (0 when none does)
FirstContentSelector(html) ==
    LET hits == {i \in 1..Len(CONTENT_SELECTORS) :
                    ExtractWithSelector(html, CONTENT_SELECTORS[i])}
    IN  IF hits = {} THEN 0 ELSE CHOOSE i \in hits : \A j \in hits : i <= j

\* the cascade with the <main> element tried before the two extractors
CascadeMainFirst(html) ==
    IF ExtractWithSelector(html, "main") THEN "main"
    ELSE IF ExtractWithTrafilatura(html) THEN "trafilatura"
    ELSE IF ExtractWithReadability(html) THEN "readability"
    ELSE IF ExtractWithSelector(html, "article") THEN "article"
    ELSE IF FirstContentSelector(html) # 0
         THEN "selector:" \o CONTENT_SELECTORS[FirstContentSelector(html)]
    ELSE IF BodyFallback(html) THEN "body-fallback"
    ELSE ""

\* the extraction cascade of parse_url_to_markdown (lines 215-261): the
\* strategy_used, "" when every strategy failed
Cascade(html) ==
    IF ExtractWithTrafilatura(html) THEN "trafilatura"
    ELSE IF ExtractWithReadability(html) THEN "readability"
    ELSE IF ExtractWithSelector(html, "main") THEN "main"
    ELSE IF ExtractWithSelector(html, "article") THEN "article"
    ELSE IF FirstContentSelector(html) # 0
         THEN "selector:" \o CONTENT_SELECTORS[FirstContentSelector(html)]
    ELSE IF BodyFallback(html) THEN "body-fallback"
    ELSE ""

\* fetch_url(url) returns the HTML: requests.get accepted the URL (http or
\* https) and the server answered with a success status
FetchUrl(u, html) == u.scheme \in {"http", "https"} /\ html.status = "ok"

\* the result of parse_url_to_markdown when the check of line 264 is missing
ParseUrlToMarkdownUnchecked(u, html) ==
    IF ~FetchUrl(u, html)
    THEN [ok |-> FALSE, error |-> "Failed to process URL: Failed to fetch URL", markdown |-> NoMarkdown]
    ELSE [ok |-> TRUE, error |-> "",
          markdown |-> [t |-> "markdown", url |-> u, strategy |-> Cascade(html), text |-> html.text]]

\* parse_url_to_markdown(url) on the response html: the returned Markdown
\* f"# {url}\n\n*Extracted using: {strategy_used}*\n\n{markdown}", or the
\* ValueError it raises
ParseUrlToMarkdown(u, html) ==
    IF ~FetchUrl(u, html)
    THEN [ok |-> FALSE, error |-> "Failed to process URL: Failed to fetch URL", markdown |-> NoMarkdown]
    ELSE IF Cascade(html) = ""
    THEN [ok |-> FALSE, error |-> "Failed to process URL: Could not extract content", markdown |-> NoMarkdown]
    ELSE [ok |-> TRUE, error |-> "",
          markdown |-> [t |-> "markdown", url |-> u, strategy |-> Cascade(html), text |-> html.text]]

----------------------------------------------------------------------------
\* Crawl helpers (crawler.py)

\* hashlib.md5(content.encode()).hexdigest(): the digest of the whole text,
\* distinct texts having distinct digests
Md5(content) == <<"md5", content.url, content.strategy, content.text>>

\* the test of _is_duplicate_content
IsDuplicateContent(content, hashes) == Md5(content) \in hashes

\* the failure is dropped instead of recorded
DictSetDropped(d, k, v) == d

\* self.failed_urls[url] = reason on an insertion-ordered dict
DictSet(d, k, v) ==
    IF \E i \in 1..Len(d) : d[i][1] = k
    THEN [i \in 1..Len(d) |-> IF d[i][1] = k THEN <<k, v>> ELSE d[i]]
    ELSE Append(d, <<k, v>>)

Keys(d) == {d[i][1] : i \in 1..Len(d)}

\* _extract_links: the normalized links of a page, None results dropped
ExtractLinks(u, hrefs, start, allow) ==
    LET kept == SelectSeq(hrefs, LAMBDA h : h # NoUrl /\ h.scheme # "javascript")
        norm == [i \in 1..Len(kept) |-> NormalizeUrl(kept[i], u, start, allow)]
    IN  SelectSeq(norm, LAMBDA n : n # NoUrl)

\* the links put at the front of the queue (appendleft): depth-first
EnqueueLeft(q, links, visited) == SelectSeq(links, LAMBDA l : l \notin visited) \o q

\* for link in links: if link not in self.visited_urls: queue.append(link)
Enqueue(q, links, visited) == q \o SelectSeq(links, LAMBDA l : l \notin visited)

\* parsed.path if parsed.path else "/"
RelativePath(u) == IF u.path # <<>> THEN u.path ELSE <<"/">>

\* the three lines written to llms.md when the crawl starts
FileHeader(start, maxp, allow) ==
    << [t |-> "title", start_url |-> start],
       [t |-> "generated"],
       [t |-> "config", max_pages |-> maxp, allow_subdomains |-> allow] >>

\* page_header + page_markdown + "\n\n---\n\n"
PageSection(u, markdown) ==
    << [t |-> "page", path |-> RelativePath(u)], markdown, [t |-> "rule"] >>

\* the "## Crawl Summary" text
Summary(crawled, visited, failed) ==
    << [t |-> "summary", crawled |-> crawled, visited |-> Cardinality(visited),
        failed |-> Len(failed), failed_urls |-> failed] >>

\* the URLs of new get depth d, the others keep theirs
FirstSeen(dep, new, d) ==
    [u \in DOMAIN dep \cup new |-> IF u \in DOMAIN dep THEN dep[u] ELSE d]

\* visited_urls left as it was: the add is forgotten
MarkVisitedForgotten(visited, u) == visited

\* visited_urls replaced by the current URL instead of extended by it
MarkVisitedReplaced(visited, u) == {u}

\* self.visited_urls.add(url)
MarkVisited(visited, u) == visited \cup {u}

\* the budget is not tested: while queue
LoopConditionQueueOnly(q, crawled, maxp) == q # <<>>

\* the budget test off by one: pages_crawled <= self.max_pages
LoopConditionOffByOne(q, crawled, maxp) == q # <<>> /\ crawled <= maxp

\* while queue and pages_crawled < self.max_pages
LoopCondition(q, crawled, maxp) == q # <<>> /\ crawled < maxp

----------------------------------------------------------------------------
\* State of one WebsiteCrawler and of its crawl() call

VARIABLES
    start_url, allow_subdomains, max_pages, respect_robots, \* set by __init__
    robots_parser,
    robots_read,                                            \* what the GET of /robots.txt did
    visited_urls, content_hashes, failed_urls,              \* self.* bookkeeping
    queue, pages_crawled, all_markdown,                     \* locals of crawl()
    url, page_markdown,                                     \* locals of one iteration
    file,                                                   \* content of llms.md
    pc,                                                     \* position in crawl()
    parse_calls,                                            \* URLs given to parse_url_to_markdown, in order
    sleeps,                                                 \* calls of time.sleep(self.delay)
    outcome,                                                \* how the last iteration ended
    returned,                                               \* value returned by crawl()
    depth,                                                  \* link distance from the seed at which a URL was first queued
    norm_call, norm_result,                                 \* a call of _normalize_url and what it returned
    extract_call, extract_result,                           \* a call of parse_url_to_markdown and what it returned
    dedup_call, dedup_result                                \* a call of deduplicate_content and what it returned

vars == << start_url, allow_subdomains, max_pages, respect_robots,
           robots_parser, robots_read,
           visited_urls, content_hashes, failed_urls, queue, pages_crawled,
           all_markdown, url, page_markdown, file, pc, parse_calls, sleeps,
           outcome, returned, depth, norm_call, norm_result, extract_call,
           extract_result, dedup_call, dedup_result >>

config == << start_url, allow_subdomains, max_pages, respect_robots,
             robots_parser, robots_read >>

\* the single function calls studied on their own; a crawl leaves them alone
calls == << norm_call, norm_result, extract_call, extract_result,
            dedup_call, dedup_result >>

NoCall == [fn |-> "none"]

NoCalls ==
    /\ norm_call = NoCall
    /\ norm_result = NoCall
    /\ extract_call = NoCall
    /\ extract_result = NoCall
    /\ dedup_call = NoCall
    /\ dedup_result = NoCall

\* the answers that the GET of f"{scheme}://{netloc}/robots.txt" can get: for a
\* start_url without http(s) scheme urlopen raises (unknown url type)
RobotsAnswers(start, responses) ==
    IF start.scheme \in {"http", "https"} THEN responses
    ELSE { r \in responses : r.kind = "raised" }

\* WebsiteCrawler.__init__: the state after construction, for arguments and a
\* robots.txt answer taken from the given sets
Constructed(seeds, allows, pages, respects, responses) ==
    /\ start_url \in seeds
    /\ allow_subdomains \in allows
    /\ max_pages \in pages
    /\ respect_robots \in respects
    /\ robots_read \in (IF respect_robots THEN RobotsAnswers(start_url, responses)
                        ELSE {NoRobotsRequest})
    /\ robots_parser = InitRobotsParser(respect_robots, robots_read)
    /\ visited_urls = {}
    /\ content_hashes = {}
    /\ failed_urls = <<>>
    /\ queue = <<>>
    /\ pages_crawled = 0
    /\ all_markdown = <<>>
    /\ url = NoUrl
    /\ page_markdown = NoMarkdown
    /\ file = <<>>
    /\ pc = "start"
    /\ parse_calls = <<>>
    /\ sleeps = 0
    /\ outcome = "none"
    /\ returned = <<>>
    /\ depth = <<>>

Init ==
    /\ Constructed(Seeds, BOOLEAN, 1..MaxPagesBound, BOOLEAN, RobotsResponses)
    /\ NoCalls

\* crawl(), lines 207-222: the queue holds the seed, llms.md is (re)written
\* with the header
CrawlStart ==
    /\ pc = "start"
    /\ queue' = <<start_url>>
    /\ file' = FileHeader(start_url, max_pages, allow_subdomains)
    /\ pages_crawled' = 0
    /\ all_markdown' = <<>>
    /\ depth' = (start_url :> 0)
    /\ pc' = "loop"
    /\ UNCHANGED << config, calls, visited_urls, content_hashes, failed_urls, url,
                    page_markdown, parse_calls, sleeps, outcome, returned >>

\* lines 224-230: popleft of a URL that is already in visited_urls
SkipVisited ==
    /\ pc = "loop"
    /\ LoopCondition(queue, pages_crawled, max_pages)
    /\ Head(queue) \in visited_urls
    /\ queue' = Tail(queue)
    /\ url' = Head(queue)
    /\ outcome' = "visited"
    /\ UNCHANGED << config, calls, depth, visited_urls, content_hashes, failed_urls,
                    pages_crawled, all_markdown, page_markdown, file, pc,
                    parse_calls, sleeps, returned >>

\* lines 224-233: popleft of a new URL, which joins visited_urls
Dequeue ==
    /\ pc = "loop"
    /\ LoopCondition(queue, pages_crawled, max_pages)
    /\ Head(queue) \notin visited_urls
    /\ queue' = Tail(queue)
    /\ url' = Head(queue)
    /\ visited_urls' = MarkVisited(visited_urls, Head(queue))
    /\ outcome' = "visiting"
    /\ pc' = "robots"
    /\ UNCHANGED << config, calls, depth, content_hashes, failed_urls, pages_crawled,
                    all_markdown, page_markdown, file, parse_calls, sleeps,
                    returned >>

\* lines 236-239: robots.txt forbids the URL
RobotsBlocked ==
    /\ pc = "robots"
    /\ ~CanFetch(robots_parser, url)
    /\ failed_urls' = DictSet(failed_urls, url, "Blocked by robots.txt")
    /\ outcome' = "robots"
    /\ pc' = "loop"
    /\ UNCHANGED << config, calls, depth, visited_urls, content_hashes, queue, pages_crawled,
                    all_markdown, url, page_markdown, file, parse_calls,
                    sleeps, returned >>

\* line 236: robots.txt allows the URL
RobotsAllowed ==
    /\ pc = "robots"
    /\ CanFetch(robots_parser, url)
    /\ pc' = "parse"
    /\ UNCHANGED << config, calls, depth, visited_urls, content_hashes, failed_urls, queue,
                    pages_crawled, all_markdown, url, page_markdown, file,
                    parse_calls, sleeps, outcome, returned >>

\* lines 247-248: parse_url_to_markdown returns; it has rewritten llms.md
\* with the page's Markdown (parser.py lines 277-278)
ParseOk ==
    /\ pc = "parse"
    /\ \E html \in Htmls :
          LET r == ParseUrlToMarkdown(url, html)
          IN  /\ r.ok
              /\ page_markdown' = r.markdown
              /\ file' = <<r.markdown>>
    /\ parse_calls' = Append(parse_calls, url)
    /\ pages_crawled' = pages_crawled + 1
    /\ pc' = "dup"
    /\ UNCHANGED << config, calls, depth, visited_urls, content_hashes, failed_urls, queue,
                    all_markdown, url, sleeps, outcome, returned >>

\* lines 247, 280-282: parse_url_to_markdown raises
ParseFailed ==
    /\ pc = "parse"
    /\ \E html \in Htmls :
          LET r == ParseUrlToMarkdown(url, html)
          IN  /\ ~r.ok
              /\ failed_urls' = DictSet(failed_urls, url, r.error)
    /\ parse_calls' = Append(parse_calls, url)
    /\ outcome' = "failed"
    /\ pc' = "sleep"
    /\ UNCHANGED << config, calls, depth, visited_urls, content_hashes, queue, pages_crawled,
                    all_markdown, url, page_markdown, file, sleeps, returned >>

\* lines 251-268, _is_duplicate_content included: a page whose digest is in
\* content_hashes is dropped (continue); otherwise the digest is added and the
\* page section is appended to llms.md and to all_markdown
CheckDuplicate ==
    /\ pc = "dup"
    /\ IF IsDuplicateContent(page_markdown, content_hashes)
       THEN /\ outcome' = "duplicate"
            /\ pc' = "loop"
            /\ UNCHANGED << content_hashes, file, all_markdown >>
       ELSE /\ content_hashes' = content_hashes \cup {Md5(page_markdown)}
            /\ file' = file \o PageSection(url, page_markdown)
            /\ all_markdown' = all_markdown \o PageSection(url, page_markdown)
            /\ pc' = "links"
            /\ UNCHANGED outcome
    /\ UNCHANGED << config, calls, depth, visited_urls, failed_urls, queue, pages_crawled,
                    url, page_markdown, parse_calls, sleeps, returned >>

\* lines 271-278: the second GET answers; its links are normalized and the
\* ones not yet visited are queued
EnqueueLinks ==
    /\ pc = "links"
    /\ \E hrefs \in SeqsUpTo(Hrefs, MaxLinks) :
          LET links == ExtractLinks(url, hrefs, start_url, allow_subdomains)
          IN  /\ queue' = Enqueue(queue, links, visited_urls)
              /\ depth' = FirstSeen(depth, Range(queue') \ DOMAIN depth, depth[url] + 1)
    /\ outcome' = "ok"
    /\ pc' = "sleep"
    /\ UNCHANGED << config, calls, visited_urls, content_hashes, failed_urls,
                    pages_crawled, all_markdown, url, page_markdown, file,
                    parse_calls, sleeps, returned >>

\* lines 271, 280-282: the second GET raises
LinksFailed ==
    /\ pc = "links"
    /\ failed_urls' = DictSet(failed_urls, url, "requests.get failed")
    /\ outcome' = "links_failed"
    /\ pc' = "sleep"
    /\ UNCHANGED << config, calls, depth, visited_urls, content_hashes, queue, pages_crawled,
                    all_markdown, url, page_markdown, file, parse_calls,
                    sleeps, returned >>

\* the delay is left out after an iteration that recorded a failure
SleepAfterSuccessOnly ==
    /\ pc = "sleep"
    /\ sleeps' = IF outcome = "ok" THEN sleeps + 1 ELSE sleeps
    /\ pc' = "loop"
    /\ UNCHANGED << config, calls, depth, visited_urls, content_hashes, failed_urls, queue,
                    pages_crawled, all_markdown, url, page_markdown, file,
                    parse_calls, outcome, returned >>

\* line 285
Sleep ==
    /\ pc = "sleep"
    /\ sleeps' = sleeps + 1
    /\ pc' = "loop"
    /\ UNCHANGED << config, calls, depth, visited_urls, content_hashes, failed_urls, queue,
                    pages_crawled, all_markdown, url, page_markdown, file,
                    parse_calls, outcome, returned >>

\* lines 291-311: the loop is over; the summary is appended and returned
Finish ==
    /\ pc = "loop"
    /\ ~LoopCondition(queue, pages_crawled, max_pages)
    /\ file' = file \o Summary(pages_crawled, visited_urls, failed_urls)
    /\ all_markdown' = all_markdown \o Summary(pages_crawled, visited_urls, failed_urls)
    /\ returned' = all_markdown'
    /\ pc' = "done"
    /\ UNCHANGED << config, calls, depth, visited_urls, content_hashes, failed_urls, queue,
                    pages_crawled, url, page_markdown, parse_calls, sleeps,
                    outcome >>

Next ==
    \/ CrawlStart
    \/ SkipVisited
    \/ Dequeue
    \/ RobotsBlocked
    \/ RobotsAllowed
    \/ ParseOk
    \/ ParseFailed
    \/ CheckDuplicate
    \/ EnqueueLinks
    \/ LinksFailed
    \/ Sleep
    \/ Finish

Spec == Init /\ [][Next]_vars

\* Crawls with a budget of BfsPages pages, deep enough for pages two links
\* away from the seed to be processed
InitBfs ==
    /\ Constructed({MkUrl("https", Host, <<"/">>, "", "")}, {FALSE}, {BfsPages},
                   BOOLEAN, {[kind |-> "ok", rules |-> {<<"/", "about">>}]})
    /\ NoCalls

SpecBfs == InitBfs /\ [][Next]_vars

\* crawl() runs in one thread and every request it makes returns or raises, so
\* a crawl that can take a step takes one
SpecLive == Init /\ [][Next]_vars /\ WF_vars(Next)

----------------------------------------------------------------------------
\* One call of parse_url_to_markdown (the single-page entry point
\* fetch_and_parse_url), no crawl under way

\* the URLs given to the single-page entry point
PageUrls ==
    { MkUrl("https", Host, <<"/">>, "", ""),                      \* https://example.com/
      MkUrl("ftp", Host, <<"/">>, "", "") }                       \* ftp://example.com/

NoCrawl ==
    Constructed({MkUrl("https", Host, <<"/">>, "", "")}, {FALSE}, {1}, {FALSE}, {})

InitExtract ==
    /\ NoCrawl
    /\ extract_call \in { [fn |-> "parse_url_to_markdown", url |-> u, html |-> h] :
                            u \in PageUrls, h \in PageHtmls }
    /\ extract_result = [phase |-> "called", gets |-> 0, error |-> "",
                         markdown |-> NoMarkdown]
    /\ norm_call = NoCall
    /\ norm_result = NoCall
    /\ dedup_call = NoCall
    /\ dedup_result = NoCall

crawl == << config, visited_urls, content_hashes, failed_urls, queue,
            pages_crawled, all_markdown, url, page_markdown, pc, parse_calls,
            sleeps, outcome, returned, depth >>

\* parser.py lines 209 and 20-42: the one GET of the page; a failure is raised
\* as ValueError, re-raised by line 284
PageFetch ==
    /\ extract_result.phase = "called"
    /\ extract_result' =
          IF FetchUrl(extract_call.url, extract_call.html)
          THEN [extract_result EXCEPT !.phase = "fetched", !.gets = @ + 1]
          ELSE [extract_result EXCEPT !.phase = "raised", !.gets = @ + 1,
                   !.error = ParseUrlToMarkdown(extract_call.url, extract_call.html).error]
    /\ UNCHANGED << crawl, file, extract_call, norm_call, norm_result,
                    dedup_call, dedup_result >>

\* parser.py lines 210-284: cascade, conversion, then llms.md is written and
\* the Markdown returned; an exhausted cascade raises before the write
PageExtract ==
    /\ extract_result.phase = "fetched"
    /\ LET r == ParseUrlToMarkdown(extract_call.url, extract_call.html)
       IN  IF r.ok
           THEN /\ file' = <<r.markdown>>
                /\ extract_result' = [extract_result EXCEPT !.phase = "returned",
                                         !.markdown = r.markdown]
           ELSE /\ file' = file
                /\ extract_result' = [extract_result EXCEPT !.phase = "raised",
                                         !.error = r.error]
    /\ UNCHANGED << crawl, extract_call, norm_call, norm_result,
                    dedup_call, dedup_result >>

NextExtract ==
    \/ PageFetch
    \/ PageExtract

SpecExtract == InitExtract /\ [][NextExtract]_vars

----------------------------------------------------------------------------
\* One call of deduplicate_content(markdown, seen_content) (parser.py)

MaxLines == 4

\* a line of Markdown: its text without surrounding whitespace, and whether
\* the line carries surrounding whitespace
Line(text, pad) == [text |-> text, pad |-> pad]

\* len() of the texts used
TextLen(text) ==
    CASE text = "fifty-a" -> 50
      [] text = "fifty-b" -> 50
      [] text = "fortyone" -> 41
      [] text = "forty" -> 40
      [] text = "ten" -> 10

Lines ==
    { Line(t, FALSE) : t \in {"fifty-a", "fifty-b", "fortyone", "forty", "ten"} }
       \cup { Line("fifty-a", TRUE), Line("ten", TRUE) }

\* line.strip()
Strip(line) == line.text

\* the digest is taken of the line as it is, surrounding whitespace included
LineHashRaw(line) == <<"md5", line.text, line.pad>>

\* hashlib.md5(line.strip().encode()).hexdigest()
LineHash(line) == <<"md5", Strip(line)>>

\* the threshold also takes lines of exactly 40 characters
SubstantiveFrom40(line) == TextLen(Strip(line)) >= 40

\* len(line.strip()) > 40
Substantive(line) == TextLen(Strip(line)) > 40

\* the sets of hashes a caller passes as seen_content
SeenContents ==
    { {}, {LineHash(Line("fifty-a", FALSE))}, {LineHash(Line("ten", FALSE))} }

\* the loop of deduplicate_content from line i on
RECURSIVE DedupFrom(_, _, _, _)
DedupFrom(lines, i, unique_lines, seen_content) ==
    IF i > Len(lines)
    THEN [unique_lines |-> unique_lines, seen_content |-> seen_content]
    ELSE LET line == lines[i]
         IN  IF Substantive(line) /\ LineHash(line) \in seen_content
             THEN DedupFrom(lines, i + 1, unique_lines, seen_content)
             ELSE DedupFrom(lines, i + 1, Append(unique_lines, line),
                            IF Substantive(line)
                            THEN seen_content \cup {LineHash(line)}
                            ELSE seen_content)

\* deduplicate_content(markdown, seen_content) as one call
DeduplicateContent(lines, seen_content) == DedupFrom(lines, 1, <<>>, seen_content)

InitDedup ==
    /\ NoCrawl
    /\ dedup_call \in { [fn |-> "deduplicate_content", lines |-> l, seen_content |-> h] :
                          l \in SeqsUpTo(Lines, MaxLines), h \in SeenContents }
    /\ dedup_result = [phase |-> "loop", i |-> 1, unique_lines |-> <<>>,
                       seen_content |-> dedup_call.seen_content, again |-> <<>>]
    /\ norm_call = NoCall
    /\ norm_result = NoCall
    /\ extract_call = NoCall
    /\ extract_result = NoCall

\* parser.py lines 179-191: one pass of the loop over the lines
DedupLine ==
    /\ dedup_result.phase = "loop"
    /\ dedup_result.i <= Len(dedup_call.lines)
    /\ LET line == dedup_call.lines[dedup_result.i]
       IN  dedup_result' =
              IF Substantive(line) /\ LineHash(line) \in dedup_result.seen_content
              THEN [dedup_result EXCEPT !.i = @ + 1]
              ELSE [dedup_result EXCEPT !.i = @ + 1,
                       !.unique_lines = Append(@, line),
                       !.seen_content = IF Substantive(line)
                                        THEN @ \cup {LineHash(line)} ELSE @]
    /\ UNCHANGED << crawl, file, dedup_call, norm_call, norm_result,
                    extract_call, extract_result >>

\* parser.py line 193: the lines kept and the updated set are returned
DedupReturn ==
    /\ dedup_result.phase = "loop"
    /\ dedup_result.i > Len(dedup_call.lines)
    /\ dedup_result' = [dedup_result EXCEPT !.phase = "returned"]
    /\ UNCHANGED << crawl, file, dedup_call, norm_call, norm_result,
                    extract_call, extract_result >>

\* a second call, on the lines the first call returned, with a fresh set()
\* as parse_url_to_markdown passes it (parser.py line 213)
DedupAgain ==
    /\ dedup_result.phase = "returned"
    /\ dedup_result' = [dedup_result EXCEPT !.phase = "again",
                           !.again = DeduplicateContent(dedup_result.unique_lines, {}).unique_lines]
    /\ UNCHANGED << crawl, file, dedup_call, norm_call, norm_result,
                    extract_call, extract_result >>

NextDedup ==
    \/ DedupLine
    \/ DedupReturn
    \/ DedupAgain

SpecDedup == InitDedup /\ [][NextDedup]_vars

----------------------------------------------------------------------------
\* One call of WebsiteCrawler._normalize_url(url, parent_url), and a second
\* call on its result

\* the start_url of the crawler whose method is called
NormSeeds ==
    { MkUrl("https", Host, <<>>, "", ""),                              \* https://example.com
      MkUrl("https", <<"www.">> \o Host, <<"/">>, "", ""),             \* https://www.example.com/
      MkUrl("https", <<"a", "www.">> \o Host, <<"/">>, "", "") }       \* https://awww.example.com/

\* the links found on a page
NormHrefs ==
    Hrefs \cup
    { MkUrl("https", <<"www.">> \o Host, <<"/", "about">>, "", ""),    \* https://www.example.com/about
      MkUrl("https", <<"www.", "www.">> \o Host, <<"/">>, "", ""),     \* https://www.www.example.com/
      MkUrl("https", <<"docs.">> \o Host, <<"/">>, "", ""),            \* https://docs.example.com/
      MkUrl("https", <<"a">> \o Host, <<"/">>, "", ""),                \* https://aexample.com/
      MkUrl("https", <<"a", "www.">> \o Host, <<"/", "About">>, "", ""), \* https://awww.example.com/About
      MkUrl("", <<>>, <<"/", "GUIDE.PDF">>, "", ""),                   \* /GUIDE.PDF
      MkUrl("", <<>>, <<"logo.png">>, "", ""),                         \* logo.png
      MkUrl("", <<>>, <<"/", "view">>, "file=guide.pdf", ""),          \* /view?file=guide.pdf
      MkUrl("mailto", <<>>, <<"someone">>, "", "") }                   \* mailto:someone

\* the pages the links are found on
NormParents ==
    { MkUrl("https", Host, <<"/">>, "", ""),                           \* https://example.com/
      MkUrl("https", Host, <<"/", "docs", "/", "page.html">>, "", "") } \* https://example.com/docs/page.html

InitNormalize ==
    /\ Constructed(NormSeeds, BOOLEAN, {1}, {FALSE}, {})
    /\ norm_call \in { [fn |-> "_normalize_url", url |-> u, parent_url |-> p] :
                         u \in NormHrefs, p \in NormParents }
    /\ norm_result = [phase |-> "called", value |-> NoUrl, again |-> NoUrl]
    /\ extract_call = NoCall
    /\ extract_result = NoCall
    /\ dedup_call = NoCall
    /\ dedup_result = NoCall

\* crawler.py lines 81-133 on the link
NormalizeLink ==
    /\ norm_result.phase = "called"
    /\ norm_result' = [norm_result EXCEPT !.phase = "returned",
                          !.value = NormalizeUrl(norm_call.url, norm_call.parent_url,
                                                 start_url, allow_subdomains)]
    /\ UNCHANGED << crawl, file, norm_call, extract_call, extract_result,
                    dedup_call, dedup_result >>

\* crawler.py lines 81-133 on the URL the first call returned
NormalizeAgain ==
    /\ norm_result.phase = "returned"
    /\ norm_result.value # NoUrl
    /\ norm_result' = [norm_result EXCEPT !.phase = "again",
                          !.again = NormalizeUrl(norm_result.value, norm_call.parent_url,
                                                 start_url, allow_subdomains)]
    /\ UNCHANGED << crawl, file, norm_call, extract_call, extract_result,
                    dedup_call, dedup_result >>

NextNormalize ==
    \/ NormalizeLink
    \/ NormalizeAgain

SpecNormalize == InitNormalize /\ [][NextNormalize]_vars

TypeOK ==
    /\ pc \in {"start", "loop", "robots", "parse", "dup", "links", "sleep", "done"}
    /\ pages_crawled \in Nat
    /\ sleeps \in Nat

----------------------------------------------------------------------------
\* Properties

NoDuplicates(s) == \A i, j \in 1..Len(s) : i # j => s[i] # s[j]

\* u is what _normalize_url returns for itself: no query, no fragment,
\* trailing slash
IsNormalized(u) == u = NormalizeUrl(u, u, start_url, allow_subdomains)

\* the robots.txt in force forbids u
PolicyDisallows(u) == robots_parser.loaded /\ ~RobotsAllows(robots_parser, u)

\* the Markdown pieces of the page sections of a document
PageTexts(doc) == SelectSeq(doc, LAMBDA c : c.t = "markdown")

\* C1: pages_crawled never exceeds max_pages, and an iteration that discards
\* an already-visited URL (loop -> loop) or a robots-blocked URL
\* (robots -> loop) leaves pages_crawled unchanged.
C1_Budget ==
    /\ [](pages_crawled <= max_pages)
    /\ [][(pc' = "loop" /\ pc \in {"loop", "robots"}) =>
              pages_crawled' = pages_crawled]_vars

\* the budget is exhausted with URLs still queued, after a robots refusal
C1_Witness ==
    /\ pc = "done"
    /\ pages_crawled = max_pages
    /\ queue # <<>>
    /\ \E i \in 1..Len(failed_urls) : failed_urls[i][2] = "Blocked by robots.txt"

\* C2: parse_url_to_markdown is called at most once per URL string, a URL is
\* in visited_urls when it is called, and two links of a visited page that
\* differ only by a trailing slash and are both kept normalize to one URL,
\* parsed at most once.
C2_AtMostOnce ==
    /\ NoDuplicates(parse_calls)
    /\ pc = "parse" => url \in visited_urls /\ url \notin Range(parse_calls)
    /\ \A p \in visited_urls : \A h1, h2 \in Hrefs :
          LET n1 == NormalizeUrl(h1, p, start_url, allow_subdomains)
              n2 == NormalizeUrl(h2, p, start_url, allow_subdomains)
          IN  (h2 = [h1 EXCEPT !.path = h1.path \o <<"/">>] /\ n1 # NoUrl /\ n2 # NoUrl)
                 => /\ n1 = n2
                    /\ Cardinality({i \in 1..Len(parse_calls) : parse_calls[i] = n1}) <= 1

\* a URL that was queued twice is discarded at its second dequeue, after
\* its page was parsed
C2_Witness ==
    /\ outcome = "visited"
    /\ url \in Range(parse_calls)
    /\ url.path = <<"/", "about", "/">>

\* C3 (as claimed): every URL given to the page pipeline is normalized, and no
\* two of them have the same normalization.
C3_NormalizedOnce ==
    /\ \A i \in 1..Len(parse_calls) : IsNormalized(parse_calls[i])
    /\ \A i, j \in 1..Len(parse_calls) :
          i # j => NormalizeUrl(parse_calls[i], parse_calls[i], start_url, allow_subdomains)
                      # NormalizeUrl(parse_calls[j], parse_calls[j], start_url, allow_subdomains)

\* C4: failed_urls is within visited_urls, visited_urls only grows, and the
\* current URL is in visited_urls from its dequeue on (before the robots
\* check, the fetch and the failure record).
C4_FailedVisited ==
    /\ [](Keys(failed_urls) \subseteq visited_urls)
    /\ [](Range(parse_calls) \subseteq visited_urls)
    /\ [](pc \in {"robots", "parse", "dup", "links", "sleep"} => url \in visited_urls)
    /\ [][visited_urls \subseteq visited_urls']_vars

\* two URLs visited, one of them failed
C4_Witness ==
    /\ Cardinality(visited_urls) >= 2
    /\ failed_urls # <<>>
    /\ pc = "loop"

\* C5: a step taken on a URL that robots.txt disallows records it in
\* failed_urls with the robots reason and returns to the loop; the URL is
\* visited, is not parsed, and pages_crawled, the output, the file and the
\* queue are unchanged.
C5_RobotsBlocked ==
    [][(pc = "robots" /\ PolicyDisallows(url)) =>
          /\ pc' = "loop"
          /\ <<url, "Blocked by robots.txt">> \in Range(failed_urls')
          /\ url \in visited_urls'
          /\ parse_calls' = parse_calls
          /\ pages_crawled' = pages_crawled
          /\ all_markdown' = all_markdown
          /\ file' = file
          /\ queue' = queue
          /\ sleeps' = sleeps]_vars

\* a refused URL, with another URL still to come
C5_Witness ==
    /\ outcome = "robots"
    /\ pc = "loop"
    /\ PolicyDisallows(url)
    /\ url \notin Range(parse_calls)
    /\ pages_crawled > 0

\* C6: after an error of the page pipeline or of the link fetch the URL is in
\* failed_urls with a reason, it was parsed once, the crawl is back in its
\* loop (sleep, then loop) where it can take the next URL or finish, and the
\* value crawl() returns ends with the summary.
C6_FailureIsolated ==
    /\ (outcome \in {"failed", "links_failed"} /\ pc \in {"sleep", "loop", "done"}) =>
          /\ \E i \in 1..Len(failed_urls) :
                failed_urls[i][1] = url /\ failed_urls[i][2] # ""
          /\ Cardinality({i \in 1..Len(parse_calls) : parse_calls[i] = url}) = 1
    /\ pc = "sleep" => ENABLED Sleep
    /\ pc = "loop" => ENABLED (SkipVisited \/ Dequeue \/ Finish)
    /\ pc = "done" =>
          /\ returned # <<>>
          /\ Last(returned) = Summary(pages_crawled, visited_urls, failed_urls)[1]
          /\ \A i \in 1..Len(failed_urls) :
                failed_urls[i][1] \in visited_urls

\* a page failed and a later page was processed
C6_Witness ==
    /\ pc = "done"
    /\ \E i \in 1..Len(failed_urls) :
          /\ failed_urls[i][2] = "Failed to process URL: Failed to fetch URL"
          /\ \E j \in 1..(Len(parse_calls) - 1) : parse_calls[j] = failed_urls[i][1]
    /\ pages_crawled > 0

\* C7 (as claimed): between iterations, a URL in failed_urls was not counted
\* and has no page section: pages_crawled + |failed| <= |visited|.
C7_FailedNotCounted ==
    pc = "loop" =>
       /\ pages_crawled + Len(failed_urls) <= Cardinality(visited_urls)
       /\ \A i \in 1..Len(all_markdown) :
             all_markdown[i].t = "markdown" => all_markdown[i].url \notin Keys(failed_urls)

\* C8 (as claimed): no two page sections of the aggregate carry the same
\* page content (same extraction, same converted text).
C8_DuplicateExcluded ==
    LET texts == PageTexts(all_markdown)
    IN  \A i, j \in 1..Len(texts) :
           (i # j /\ texts[i].url # texts[j].url) =>
              <<texts[i].strategy, texts[i].text>> # <<texts[j].strategy, texts[j].text>>

\* C9 (as claimed): from the start of the crawl on, llms.md is the header
\* followed by everything appended to the aggregate so far.
C9_FileAppendOnly ==
    pc # "start" =>
       file = FileHeader(start_url, max_pages, allow_subdomains) \o all_markdown

\* C10 (as claimed): the returned document is title, timestamp and
\* configuration lines, one page section per appended page, and the summary
\* with the crawl's counts and failures.
C10_ArtifactStructure ==
    pc = "done" =>
       /\ Len(returned) = 3 + 3 * Cardinality(content_hashes) + 1
       /\ SubSeq(returned, 1, 3) = FileHeader(start_url, max_pages, allow_subdomains)
       /\ \A i \in 4..(Len(returned) - 1) :
             returned[i].t = (CASE i % 3 = 1 -> "page" [] i % 3 = 2 -> "markdown" [] OTHER -> "rule")
       /\ Last(returned) = Summary(pages_crawled, visited_urls, failed_urls)[1]

\* the depths of the URLs of a sequence never decrease
DepthOrdered(urls) ==
    \A i, j \in 1..Len(urls) : i < j => depth[urls[i]] <= depth[urls[j]]

SectionUrls(doc) ==
    LET texts == PageTexts(doc) IN [i \in 1..Len(texts) |-> texts[i].url]

\* C11: the queue is FIFO (a URL leaves at the head, links join at the tail),
\* a URL first queued at depth d+1 is dequeued only after every URL first
\* queued at depth d or less, and the parsed pages and the page sections are
\* in order of depth.
C11_BreadthFirst ==
    /\ [][queue' # queue =>
             \/ pc = "start"
             \/ (queue # <<>> /\ queue' = Tail(queue) /\ url' = Head(queue))
             \/ IsPrefix(queue, queue')]_vars
    /\ [](\A u, w \in DOMAIN depth :
             (depth[u] < depth[w] /\ w \in visited_urls) => u \in visited_urls)
    /\ [](DepthOrdered(parse_calls))
    /\ [](DepthOrdered(SectionUrls(all_markdown)))

\* a page two links from the seed got its section after two pages one link
\* from the seed were processed
C11_Witness ==
    /\ pc = "done"
    /\ \E w \in Range(SectionUrls(all_markdown)) : depth[w] = 2
    /\ Cardinality({u \in visited_urls : depth[u] = 1}) >= 2

\* the ten strategies in the order of the cascade
StrategyNames ==
    << "trafilatura", "readability", "main", "article" >>
       \o [i \in 1..Len(CONTENT_SELECTORS) |-> "selector:" \o CONTENT_SELECTORS[i]]
       \o << "body-fallback" >>

\* strategy k, taken alone, yields a fragment for the page
Succeeds(html, k) ==
    CASE k = 1 -> ExtractWithTrafilatura(html)
      [] k = 2 -> ExtractWithReadability(html)
      [] k = 3 -> ExtractWithSelector(html, "main")
      [] k = 4 -> ExtractWithSelector(html, "article")
      [] k = Len(StrategyNames) -> html.body # -1
      [] OTHER -> ExtractWithSelector(html, CONTENT_SELECTORS[k - 4])

\* the call got its HTML and ended
Extracted ==
    /\ extract_result.phase \in {"returned", "raised"}
    /\ FetchUrl(extract_call.url, extract_call.html)

\* C12: the returned Markdown names strategy k exactly when strategy k
\* succeeds on the page and strategies 1..k-1 all fail; the call raises
\* exactly when none succeeds; so trafilatura wins over a sufficient <main>.
C12_CascadeOrder ==
    Extracted =>
       LET html == extract_call.html
           used == extract_result.markdown.strategy
       IN  /\ \A k \in 1..Len(StrategyNames) :
                 (extract_result.phase = "returned" /\ used = StrategyNames[k])
                    <=> (Succeeds(html, k) /\ \A j \in 1..(k-1) : ~Succeeds(html, j))
           /\ extract_result.phase = "raised"
                 <=> \A k \in 1..Len(StrategyNames) : ~Succeeds(html, k)
           /\ (Succeeds(html, 1) /\ Succeeds(html, 3)) => used = "trafilatura"

\* a page that both trafilatura and the <main> selector can extract
C12_Witness ==
    /\ extract_call # NoCall
    /\ extract_result.phase = "returned"
    /\ Succeeds(extract_call.html, 1)
    /\ Succeeds(extract_call.html, 3)
    /\ extract_result.markdown.strategy = "trafilatura"

\* no extractor and no selector yields a fragment for the page
OnlyBodyLeft(html) == \A k \in 1..(Len(StrategyNames) - 1) : ~Succeeds(html, k)

\* C13 (as claimed): a page with an empty <body></body> that no extractor and
\* no selector matches makes the call raise.
C13_EmptyBodyFails ==
    (Extracted /\ OnlyBodyLeft(extract_call.html) /\ extract_call.html.body = 0)
       => extract_result.phase = "raised"

\* C13 (amended): when no extractor and no selector matches, the call raises
\* exactly when the page has no <body> element; an empty <body></body> is
\* returned as body-fallback.
C13_NoBodyFails ==
    (Extracted /\ OnlyBodyLeft(extract_call.html)) =>
       /\ extract_result.phase = "raised" <=> extract_call.html.body = -1
       /\ extract_call.html.body = 0 =>
             extract_result.markdown.strategy = "body-fallback"

\* a page without <body> raised, nothing else matching
C13_Witness ==
    /\ extract_call # NoCall
    /\ Extracted
    /\ OnlyBodyLeft(extract_call.html)
    /\ extract_call.html.body = -1
    /\ extract_result.phase = "raised"
    /\ extract_result.error = "Failed to process URL: Could not extract content"

\* the indices of the lines of l kept when the set h was seen before: a line
\* goes only if it is longer than 40 characters and its trimmed text was seen
\* in h or on an earlier line
KeptIndices(l, h) ==
    { i \in 1..Len(l) :
        ~ /\ TextLen(l[i].text) > 40
          /\ \/ <<"md5", l[i].text>> \in h
             \/ \E j \in 1..(i-1) : l[j].text = l[i].text }

\* number of occurrences of the text in the lines
Occurrences(l, text) == Cardinality({ i \in 1..Len(l) : l[i].text = text })

\* C14: each pass of the loop drops its line exactly when the line's trimmed
\* length is over 40 and its fingerprint is in seen_content, and otherwise
\* appends the line as it is; only lines longer than 40 enter seen_content;
\* the result keeps exactly the lines that are short or first of their text,
\* so a repeated 50-character line appears once and a repeated 10-character
\* line as often as it was given.
C14_LineDedup ==
    /\ [][dedup_call # NoCall /\ dedup_result.phase = "loop" /\ dedup_result'.phase = "loop" =>
            LET line == dedup_call.lines[dedup_result.i]
                drop == TextLen(line.text) > 40
                           /\ <<"md5", line.text>> \in dedup_result.seen_content
            IN  /\ dedup_result'.unique_lines =
                      IF drop THEN dedup_result.unique_lines
                      ELSE Append(dedup_result.unique_lines, line)
                /\ dedup_result'.seen_content =
                      IF TextLen(line.text) > 40
                      THEN dedup_result.seen_content \cup {<<"md5", line.text>>}
                      ELSE dedup_result.seen_content]_vars
    /\ [](dedup_call # NoCall /\ dedup_result.phase = "returned" =>
            LET l == dedup_call.lines
                out == dedup_result.unique_lines
                kept == KeptIndices(l, dedup_call.seen_content)
            IN  /\ Len(out) = Cardinality(kept)
                /\ \A i \in kept :
                      out[Cardinality({ j \in kept : j <= i })] = l[i]
                /\ \A t \in {"forty", "ten"} : Occurrences(out, t) = Occurrences(l, t)
                /\ \A t \in {"fifty-a", "fifty-b", "fortyone"} : Occurrences(out, t) <= 1
                /\ dedup_result.seen_content = dedup_call.seen_content \cup
                        { <<"md5", l[i].text>> : i \in { j \in 1..Len(l) : TextLen(l[j].text) > 40 } })

\* a 50-character line given twice came out once, a 10-character line given
\* twice came out twice
C14_Witness ==
    /\ dedup_call # NoCall
    /\ dedup_result.phase = "returned"
    /\ Occurrences(dedup_call.lines, "fifty-b") = 2
    /\ Occurrences(dedup_result.unique_lines, "fifty-b") = 1
    /\ Occurrences(dedup_call.lines, "ten") = 2
    /\ Occurrences(dedup_result.unique_lines, "ten") = 2

\* C15: normalizing the URL that _normalize_url returned, against the same
\* parent, returns that URL again.
C15_Idempotent ==
    (norm_call # NoCall /\ norm_result.phase = "again") =>
        norm_result.again = norm_result.value

\* a relative link with query and fragment was normalized, then normalized again
C15_Witness ==
    /\ norm_call # NoCall
    /\ norm_result.phase = "again"
    /\ norm_call.url.query # ""
    /\ norm_call.url.scheme = ""
    /\ norm_result.value # norm_call.url
    /\ norm_result.again = norm_result.value

\* a leading "www." removed from the host
StripLeadingWww(netloc) ==
    IF netloc # <<>> /\ netloc[1] = "www." THEN Tail(netloc) ELSE netloc

\* the URL that the link denotes on its page
Denoted == Resolve(norm_call.url, norm_call.parent_url, start_url)

\* C16: without subdomains every URL whose host, less a leading "www.",
\* differs from the root domain, less a leading "www.", normalizes to None;
\* with subdomains every URL whose stripped host ends with the stripped root
\* domain passes the scope test.
C16_ScopeContainment ==
    (norm_call # NoCall /\ norm_result.phase # "called") =>
       LET host == StripLeadingWww(Denoted.netloc)
           root == StripLeadingWww(start_url.netloc)
       IN  /\ (~allow_subdomains /\ host # root) => norm_result.value = NoUrl
           /\ ( /\ allow_subdomains
                /\ IsSuffix(root, host)
                /\ Denoted.scheme \in {"http", "https"}
                /\ ~HasSkipExtension(Denoted.path) ) => norm_result.value # NoUrl

\* the last characters of the link as written: of its fragment, else of its
\* query, else of its path
LinkEnd(u) ==
    IF u.fragment # "" THEN u.fragment
    ELSE IF u.query # "" THEN u.query
    ELSE IF u.path # <<>> THEN Last(u.path)
    ELSE ""

\* the token ends in an excluded extension, in lower or in upper case
EndsInExcluded(tok) ==
    \/ Suffix(tok) \in SKIP_EXTENSIONS
    \/ Suffix(tok) = ".PDF"

\* C17 (as claimed): a link whose text ends in an excluded extension
\* normalizes to None.
C17_LinkEndExcluded ==
    (norm_call # NoCall /\ norm_result.phase # "called" /\ EndsInExcluded(LinkEnd(norm_call.url)))
        => norm_result.value = NoUrl

\* C17 (amended): a link whose path, without query and fragment, ends in an
\* excluded extension in any letter case normalizes to None, for every parent
\* and scope; an extension in the query alone does not exclude the link.
C17_PathExtensionExcluded ==
    (norm_call # NoCall /\ norm_result.phase # "called") =>
       /\ (norm_call.url.path # <<>> /\ EndsInExcluded(Last(norm_call.url.path)))
             => norm_result.value = NoUrl
       /\ ( /\ norm_call.url.query = "file=guide.pdf"
            /\ InScope(Denoted.netloc, start_url, allow_subdomains) )
             => norm_result.value # NoUrl

\* an in-scope link to an upper-case .PDF path was normalized to None
C17_Witness ==
    /\ norm_call # NoCall
    /\ norm_result.phase = "returned"
    /\ norm_call.url.path = <<"/", "GUIDE.PDF">>
    /\ InScope(Denoted.netloc, start_url, allow_subdomains)
    /\ norm_result.value = NoUrl

\* C18 (as claimed): the delay is taken only at the end of an iteration that
\* processed a page successfully and enqueued its links.
C18_SleepOnlyAfterSuccess ==
    [][sleeps' # sleeps => (outcome = "ok" /\ sleeps' = sleeps + 1)]_vars

\* C18 (amended): the delay is taken exactly once in every iteration that
\* called the page pipeline, at the end of the iteration (after the links
\* were enqueued, or after the failure was recorded) and before the next
\* dequeue, and in no iteration that ended because the URL was visited,
\* blocked by robots or duplicate content.
C18_SleepPerRequest ==
    /\ [][sleeps' # sleeps =>
            /\ sleeps' = sleeps + 1
            /\ pc = "sleep" /\ pc' = "loop"
            /\ outcome \in {"ok", "failed", "links_failed"}
            /\ queue' = queue /\ url' = url]_vars
    /\ [][(pc # "loop" /\ pc' = "loop" /\ outcome' \in {"visited", "robots", "duplicate"})
            => sleeps' = sleeps]_vars
    /\ [][(pc = "loop" /\ outcome' = "visited") => sleeps' = sleeps]_vars
    /\ [](pc \in {"loop", "done"} => sleeps = Len(parse_calls))
    /\ [](outcome = "ok" /\ pc = "loop" => sleeps >= 1)

\* a crawl that slept after a page it extracted and after a page that failed
C18_Witness ==
    /\ pc = "done"
    /\ sleeps = 2
    /\ Len(parse_calls) = 2
    /\ Cardinality(content_hashes) = 1
    /\ \E i \in 1..Len(failed_urls) :
          failed_urls[i][2] = "Failed to process URL: Could not extract content"

\* the GET of /robots.txt did not deliver a robots.txt
RobotsLoadFailed == robots_read.kind \in {"raised", "http_403", "http_404", "http_500"}

\* C19: when robots.txt could not be loaded, or respect_robots is false,
\* every URL may be fetched and none is recorded as blocked by robots.txt.
C19_LoadFailureAllowsAll ==
    (~respect_robots \/ RobotsLoadFailed) =>
       /\ \A i \in 1..Len(failed_urls) : failed_urls[i][2] # "Blocked by robots.txt"
       /\ pc = "robots" => CanFetch(robots_parser, url)

\* C20: a call of parse_url_to_markdown ends either returning Markdown or
\* raising; it raises exactly when the fetch failed (non-HTTP URL, no success
\* answer) or no strategy yields a fragment; the page is requested once and
\* nothing follows the error; a call that raises returns no Markdown and
\* leaves llms.md as it was.
C20_FailureIsTerminal ==
    /\ [](extract_call # NoCall /\ extract_result.phase \in {"returned", "raised"} =>
            LET u == extract_call.url
                html == extract_call.html
                fetched == u.scheme \in {"http", "https"} /\ html.status = "ok"
            IN  /\ extract_result.phase = "raised"
                     <=> (~fetched \/ \A k \in 1..Len(StrategyNames) : ~Succeeds(html, k))
                /\ extract_result.phase = "raised" =>
                     /\ extract_result.markdown = NoMarkdown
                     /\ extract_result.error # ""
                     /\ file = <<>>
                     /\ ~ENABLED NextExtract
                /\ extract_result.phase = "returned" =>
                     /\ extract_result.markdown # NoMarkdown
                     /\ extract_result.error = ""
                     /\ file = <<extract_result.markdown>>
                /\ extract_result.gets = 1)
    /\ [][extract_call # NoCall /\ extract_result'.phase = "raised" => file' = file]_vars

\* a non-HTTP URL ended in the error after one request, llms.md untouched
C20_Witness ==
    /\ extract_call # NoCall
    /\ extract_result.phase = "raised"
    /\ extract_result.gets = 1
    /\ file = <<>>
    /\ extract_call.url.scheme = "ftp"
    /\ extract_call.html.status = "ok"
    /\ extract_result.error = "Failed to process URL: Failed to fetch URL"

\* the seed is not an absolute http(s) URL with a host
Malformed(u) == ~(u.scheme \in {"http", "https"} /\ u.netloc # <<>>)

\* C21: a crawl whose seed is malformed returns no Markdown document (the
\* error goes to the caller); with a well-formed seed the crawl returns its
\* document, and the failures of its pages are listed in the summary.
C21_MalformedSeedRaises ==
    /\ Malformed(start_url) => returned = <<>>
    /\ (~Malformed(start_url) /\ pc = "done") =>
          /\ returned # <<>>
          /\ Last(returned).t = "summary"
          /\ Last(returned).failed_urls = failed_urls

\* C22: once the page was fetched, a page with a <body> element on which
\* every earlier strategy fails is returned with strategy body-fallback,
\* however little text the body has left; the call raises only for a page
\* without <body> element.
C22_BodyFallbackNoFloor ==
    Extracted =>
       /\ (OnlyBodyLeft(extract_call.html) /\ extract_call.html.body # -1) =>
             /\ extract_result.phase = "returned"
             /\ extract_result.markdown.strategy = "body-fallback"
       /\ extract_result.phase = "raised" => extract_call.html.body = -1
       /\ extract_result.phase = "returned" /\ extract_result.markdown.strategy = "body-fallback"
             => OnlyBodyLeft(extract_call.html)

\* a page whose body has no text left was returned as body-fallback
C22_Witness ==
    /\ extract_call # NoCall
    /\ extract_result.phase = "returned"
    /\ extract_call.html.body = 0
    /\ extract_result.markdown.strategy = "body-fallback"

\* number of "## Crawl Summary" blocks in the document
Summaries(doc) == Len(SelectSeq(doc, LAMBDA c : c.t = "summary"))

\* C23: every crawl reaches its return; the loop is left exactly when the
\* queue is empty or pages_crawled has reached max_pages (it is left then and
\* only then); the summary is appended once, as the last block, after every
\* page section, and not before the loop is left.
C23_Terminates ==
    /\ <>(pc = "done")
    /\ [][pc' = "done" /\ pc # "done" =>
            /\ pc = "loop"
            /\ (queue = <<>> \/ pages_crawled >= max_pages)]_vars
    /\ [][(pc = "loop" /\ (queue = <<>> \/ pages_crawled >= max_pages))
            => pc' = "done"]_vars
    /\ [][(pc = "loop" /\ queue # <<>> /\ pages_crawled < max_pages)
            => pc' # "done"]_vars
    /\ [](pc # "done" => Summaries(all_markdown) = 0 /\ Summaries(file) = 0)
    /\ [](pc = "done" =>
            /\ Summaries(all_markdown) = 1 /\ Last(all_markdown).t = "summary"
            /\ Summaries(file) = 1 /\ Last(file).t = "summary"
            /\ Summaries(returned) = 1 /\ Last(returned).t = "summary")

\* a crawl ended on its budget with URLs left in the queue and the summary
\* after its page sections
C23_Witness ==
    /\ pc = "done"
    /\ queue # <<>>
    /\ pages_crawled = max_pages
    /\ Len(PageTexts(all_markdown)) = 2
    /\ Last(all_markdown).t = "summary"

\* the lines of l at the indices K, in order
LinesAt(l, K) ==
    [n \in 1..Cardinality(K) |->
        l[CHOOSE i \in K : Cardinality({ j \in K : j <= i }) = n]]

\* line i is the first of l with its trimmed text
FirstOccurrence(l, i) == \A j \in 1..(i-1) : l[j].text # l[i].text

\* the first line of out with the trimmed text t is the line ln, whitespace
\* included
FirstWithText(out, t, ln) ==
    \E n \in 1..Len(out) :
       /\ out[n] = ln
       /\ \A m \in 1..(n-1) : out[m].text # t

\* C24 (as claimed): for every initial seen set the output keeps the first
\* occurrence of each line of the input.
C24_FirstOccurrenceKept ==
    (dedup_call # NoCall /\ dedup_result.phase \in {"returned", "again"}) =>
       \A i \in 1..Len(dedup_call.lines) :
          FirstOccurrence(dedup_call.lines, i) =>
             FirstWithText(dedup_result.unique_lines, dedup_call.lines[i].text,
                           dedup_call.lines[i])

\* C24 (amended): the output is an order-preserving subsequence of the input;
\* it keeps, whitespace included, the first occurrence of each line that is
\* at most 40 characters long after trimming or whose fingerprint is not in
\* the initial seen set, and no line longer than 40 twice (lines equal after
\* trimming being the same line); a second call with a fresh set on the
\* output returns the output unchanged.
C24_DeleteOnlyIdempotent ==
    (dedup_call # NoCall /\ dedup_result.phase \in {"returned", "again"}) =>
       LET l == dedup_call.lines
           out == dedup_result.unique_lines
       IN  /\ \E K \in SUBSET (1..Len(l)) : out = LinesAt(l, K)
           /\ \A i \in 1..Len(l) :
                 ( /\ FirstOccurrence(l, i)
                   /\ (TextLen(l[i].text) <= 40
                          \/ <<"md5", l[i].text>> \notin dedup_call.seen_content) )
                    => FirstWithText(out, l[i].text, l[i])
           /\ \A n, m \in 1..Len(out) :
                 (n # m /\ out[n].text = out[m].text) => TextLen(out[n].text) <= 40
           /\ dedup_result.phase = "again" => dedup_result.again = out

\* after a fresh call dropped a repeated line that differs from its first
\* occurrence in whitespace only, the second call changed nothing
C24_Witness ==
    /\ dedup_call # NoCall
    /\ dedup_result.phase = "again"
    /\ dedup_call.seen_content = {}
    /\ Len(dedup_call.lines) >= 2
    /\ dedup_call.lines[1] = Line("fifty-a", TRUE)
    /\ Line("fifty-a", FALSE) \in Range(dedup_call.lines)
    /\ Line("fifty-a", FALSE) \notin Range(dedup_result.unique_lines)
    /\ Len(dedup_result.unique_lines) = Len(dedup_call.lines) - 1
    /\ dedup_result.again = dedup_result.unique_lines

====
